---- MODULE Spec2Model ----
(***************************************************************************)
(* A model of clip/clip.py: the tokenizer glue (tokenize), the checkpoint  *)
(* download (_download) and the prompt-learning classifier (PromptLearner, *)
(* TextEncoder, CLIP).  Tensors are modelled by their shapes (sequences of *)
(* naturals) together with the values the claims speak about (token rows,  *)
(* top-k indices, entity keys); every raise of the code is an outcome      *)
(* record naming the exception and the line that raises it.                *)
(***************************************************************************)
EXTENDS Integers, Sequences, FiniteSets, TLC

VARIABLES tok, dl, fs, clip, fwd

vars == <<tok, dl, fs, clip, fwd>>

(***************************************************************************)
(* Bounds of the model.                                                    *)
(***************************************************************************)
MaxTexts == 2
MaxTextLen == 1
MaxContext == 3
MaxChunks == 1
MaxDevices == 2
MaxEntities == 2
MaxTextPrompt == 2

(***************************************************************************)
(* tokenize (clip.py 293-330)                                              *)
(***************************************************************************)
\* _tokenizer.encoder["<|startoftext|>"] and ["<|endoftext|>"] of the CLIP BPE vocabulary.
sot_token == 49406
eot_token == 49407

\* The ids _tokenizer.encode can return: 0 is a real vocabulary entry ("!"),
\* 320 stands for an ordinary one, and encode("<|endoftext|>") gives eot_token.
Vocabulary == {0, 320, eot_token}

RECURSIVE SeqsUpTo(_, _)
SeqsUpTo(S, n) ==
    IF n = 0 THEN {<<>>}
    ELSE LET shorter == SeqsUpTo(S, n - 1)
         IN  shorter \cup {Append(s, x) : s \in {t \in shorter : Len(t) = n - 1}, x \in S}

\* The encoded texts: _tokenizer.encode(text) for each text of the call.
EncodedTexts == SeqsUpTo(Vocabulary, MaxTextLen)

\* all_tokens[i] = [sot_token] + _tokenizer.encode(text) + [eot_token]
Wrap(encoded) == <<sot_token>> \o encoded \o <<eot_token>>

\* torch.zeros(context_length): one row of the result matrix.
ZeroRow(context_length) == [j \in 1..context_length |-> 0]

\* TooLong with the two wrapping tokens left out of the count.
TooLongUnwrapped(tokens, context_length) == Len(tokens) - 2 > context_length

\* len(tokens) > context_length
TooLong(tokens, context_length) == Len(tokens) > context_length

\* tokens = tokens[:context_length]
Truncated(tokens, context_length) == SubSeq(tokens, 1, context_length)

\* ForceEot with the assignment left out.
ForceEotSkipped(tokens) == tokens

\* tokens[-1] = eot_token on a non-empty list
ForceEot(tokens) == [tokens EXCEPT ![Len(tokens)] = eot_token]

\* result[i, :len(tokens)] = torch.tensor(tokens), len(tokens) <= context_length
AssignRow(row, tokens) == [j \in 1..Len(row) |-> IF j <= Len(tokens) THEN tokens[j] ELSE row[j]]

\* The body of the loop for input i: the row written, or the exception raised.
TokenizeOne(encoded, context_length, truncate) ==
    LET tokens == Wrap(encoded)
    IN  IF TooLong(tokens, context_length)
        THEN IF truncate
             THEN IF context_length = 0
                  THEN [kind |-> "IndexError", row |-> <<>>]
                  ELSE [kind |-> "row",
                        row |-> AssignRow(ZeroRow(context_length),
                                          ForceEot(Truncated(tokens, context_length)))]
             ELSE [kind |-> "RuntimeError", row |-> <<>>]
        ELSE IF Len(tokens) > context_length
             THEN [kind |-> "SizeMismatch", row |-> <<>>]
             ELSE [kind |-> "row", row |-> AssignRow(ZeroRow(context_length), tokens)]

\* for i, tokens in enumerate(all_tokens): ... ; return result
RECURSIVE TokenizeLoop(_, _, _, _, _)
TokenizeLoop(texts, context_length, truncate, i, result) ==
    IF i > Len(texts)
    THEN [kind |-> "return", input |-> 0, result |-> result]
    ELSE LET one == TokenizeOne(texts[i], context_length, truncate)
         IN  IF one.kind = "row"
             THEN TokenizeLoop(texts, context_length, truncate, i + 1, Append(result, one.row))
             ELSE [kind |-> one.kind, input |-> i, result |-> <<>>]

tokenize(texts, context_length, truncate) ==
    TokenizeLoop(texts, context_length, truncate, 1, <<>>)

NoCall == [called |-> FALSE]

\* The calls tokenize(texts, context_length, truncate) a caller can make.
TokenizeCalls ==
    [texts : SeqsUpTo(EncodedTexts, MaxTexts), context_length : 0..MaxContext,
     truncate : BOOLEAN]

\* The pending call is made and its outcome recorded.
Tokenize ==
    /\ ~tok.called
    /\ tok' = [called |-> TRUE, args |-> tok.args,
               out |-> tokenize(tok.args.texts, tok.args.context_length, tok.args.truncate)]
    /\ UNCHANGED <<dl, fs, clip, fwd>>

InitTokenize ==
    /\ tok \in [called : {FALSE}, args : TokenizeCalls]
    /\ dl = NoCall
    /\ fs = <<>>
    /\ clip = NoCall
    /\ fwd = NoCall

NextTokenize == Tokenize

SpecTokenize == InitTokenize /\ [][NextTokenize]_vars

(***************************************************************************)
(* _download (clip.py 43-72)                                               *)
(***************************************************************************)
\* A file's content, and what urlopen(url) serves: the buffers source.read(8192) returns.
Contents == SeqsUpTo({0, 1}, MaxChunks)

\* hashlib.sha256(content).hexdigest(): a digest that tells all contents apart.
RECURSIVE Sha256(_)
Sha256(content) ==
    IF content = <<>> THEN 0
    ELSE 3 * Sha256(SubSeq(content, 1, Len(content) - 1)) + content[Len(content)] + 1

\* A url split at "/": <<..., expected hash, file name>>.
FileNames == {"RN50.pt", "RN101.pt"}
Urls == {<<"models", Sha256(c), f>> : c \in Contents, f \in FileNames}

\* expected_sha256 = url.split("/")[-2]
ExpectedSha256(url) == url[Len(url) - 1]

\* filename = os.path.basename(url)
Basename(url) == url[Len(url)]

Absent == [type |-> "absent", content |-> <<>>]
Directory == [type |-> "dir", content |-> <<>>]
RegularFile(content) == [type |-> "file", content |-> content]
Entries == {Absent, Directory} \cup {RegularFile(c) : c \in Contents}

\* The file system under root: root itself and the entry at each root/filename.
FileSystems ==
    {[root |-> r, files |-> [f \in FileNames |-> Absent]] : r \in {"absent", "file"}}
    \cup [root : {"dir"}, files : [FileNames -> Entries]]

\* os.path.exists(download_target)
Exists(entry) == entry.type # "absent"

\* os.path.isfile(download_target)
IsFile(entry) == entry.type = "file"

\* HashMatches with the comparison left out.
HashMatchesAlways(entry, expected_sha256) == TRUE

\* hashlib.sha256(open(download_target, "rb").read()).hexdigest() == expected_sha256
HashMatches(entry, expected_sha256) == Sha256(entry.content) = expected_sha256

\* What the network does during one fetch: urlopen raises ("urlopen"), the
\* response has no content-Length header ("header"), source.read raises after
\* `after` buffers ("read"), or the served buffers arrive ("ok").
Networks ==
    {net \in [mode : {"ok", "urlopen", "header", "read"}, served : Contents,
              after : 0..MaxChunks] :
        /\ net.after <= Len(net.served)
        /\ net.mode # "read" => net.after = Len(net.served)}

\* Lines 59-67: the file left at download_target and whether the block raised.
Fetch(entry, net) ==
    CASE net.mode = "urlopen" -> [entry |-> entry, raised |-> "URLError"]
      [] net.mode = "header"  -> [entry |-> RegularFile(<<>>), raised |-> "TypeError"]
      [] net.mode = "read"    -> [entry |-> RegularFile(SubSeq(net.served, 1, net.after)),
                                  raised |-> "OSError"]
      [] OTHER                -> [entry |-> RegularFile(net.served), raised |-> "none"]

\* _download(url, root): the outcome, the number of urlopen calls and the entry
\* left at download_target.
DownloadOutcome(url, files, net) ==
    LET target == Basename(url)
        entry == files[target]
        expected == ExpectedSha256(url)
    IN  IF Exists(entry) /\ ~IsFile(entry)
        THEN [kind |-> "RuntimeError", line |-> 51, fetches |-> 0, entry |-> entry]
        ELSE IF IsFile(entry) /\ HashMatches(entry, expected)
        THEN [kind |-> "return", line |-> 55, fetches |-> 0, entry |-> entry]
        ELSE LET got == Fetch(entry, net)
             IN  IF got.raised # "none"
                 THEN [kind |-> got.raised, line |-> 59, fetches |-> 1, entry |-> got.entry]
                 ELSE IF ~HashMatches(got.entry, expected)
                 THEN [kind |-> "RuntimeError", line |-> 70, fetches |-> 1, entry |-> got.entry]
                 ELSE [kind |-> "return", line |-> 72, fetches |-> 1, entry |-> got.entry]

\* The pending call _download(url, root) runs against the file system and the network.
Download(net) ==
    /\ ~dl.called
    /\ IF fs.root = "file"
       THEN \* os.makedirs(root, exist_ok=True) raises FileExistsError
            /\ dl' = [called |-> TRUE, url |-> dl.url, before |-> fs,
                      out |-> [kind |-> "FileExistsError", line |-> 44, fetches |-> 0,
                               entry |-> Absent]]
            /\ fs' = fs
       ELSE LET out == DownloadOutcome(dl.url, fs.files, net)
            IN  /\ dl' = [called |-> TRUE, url |-> dl.url, before |-> fs, out |-> out]
                /\ fs' = [root |-> "dir",
                          files |-> [fs.files EXCEPT ![Basename(dl.url)] = out.entry]]
    /\ UNCHANGED <<tok, clip, fwd>>

InitDownload ==
    /\ tok = NoCall
    /\ dl \in [called : {FALSE}, url : Urls]
    /\ fs \in FileSystems
    /\ clip = NoCall
    /\ fwd = NoCall

NextDownload == \E net \in Networks : Download(net)

SpecDownload == InitDownload /\ [][NextDownload]_vars

(***************************************************************************)
(* Tensor shapes                                                           *)
(***************************************************************************)
Min(a, b) == IF a <= b THEN a ELSE b
Max(a, b) == IF a >= b THEN a ELSE b

RECURSIVE Numel(_)
Numel(shape) == IF shape = <<>> THEN 1 ELSE Head(shape) * Numel(Tail(shape))

\* The shape torch broadcasting gives two shapes, or <<-1>> when it raises:
\* the shapes are aligned at the right, and two sizes agree if equal or one is 1.
BroadcastError == <<-1>>
Broadcast(a, b) ==
    LET n == Max(Len(a), Len(b))
        at(s, j) == IF j <= n - Len(s) THEN 1 ELSE s[j - (n - Len(s))]
    IN  IF \A j \in 1..n : at(a, j) = at(b, j) \/ at(a, j) = 1 \/ at(b, j) = 1
        THEN [j \in 1..n |-> IF at(a, j) = 1 THEN at(b, j) ELSE at(a, j)]
        ELSE BroadcastError

\* clip_model.transformer followed by ln_final, which clip.py takes from the
\* loaded model: a sequence of vectors in, a sequence of the same shape out.
Transformer(shape) == shape

(***************************************************************************)
(* CLIP.__init__ (clip.py 334-372)                                         *)
(***************************************************************************)
\* tokenize's default context_length.
DefaultContextLength == 77

\* The per-entity length torch.empty(len(entities), 12, ctx_dim) is given.
EntityPromptLength == 12

\* clip_model as the code reads it: positional_embedding is [context, width],
\* ln_final.weight is [width], text_projection is [width, embed], and the image
\* encoder returns [batch, embed].
ClipModels ==
    {[context |-> 77, width |-> 16, embed |-> 2],
     [context |-> 12, width |-> 16, embed |-> 2],
     [context |-> 1, width |-> 16, embed |-> 2],
     [context |-> 1, width |-> 8, embed |-> 2],
     [context |-> 1, width |-> 8, embed |-> 1]}

\* len(class_names) of the configurations explored.
ClassCounts == {0, 6, 12, 24}

\* n_ctx as passed to CLIP(...).
ContextCounts == {3, 6, 12}

\* A phrase list: how many phrases, and whether some phrase's wrapped token
\* sequence is longer than the default context length.
PhraseLists(counts) ==
    {l \in [n : counts, too_long : BOOLEAN] : l.too_long => l.n >= 1}

\* The arguments of CLIP(args, class_names, clip_model, entities, text_prompt, n_ctx)
\* and torch.cuda.device_count(); text_prompt is args.text_prompt (the parameter
\* text_prompt is never read).
Configs ==
    [device_count : 0..MaxDevices, entities : PhraseLists(0..MaxEntities),
     class_names : PhraseLists(ClassCounts), text_prompt : 0..MaxTextPrompt,
     n_ctx : ContextCounts, clip_model : ClipModels]

\* if torch.cuda.device_count() > 1: self.text_encoder = nn.DataParallel(self.text_encoder)
Wrapped(device_count) == device_count > 1

\* self.text_encoder.module resolves only on the nn.DataParallel wrapper; a bare
\* TextEncoder has no attribute "module".
HasModule(wrapped) == wrapped

\* [tokenize(p).cuda() for p in phrases]: the exception raised, or "none".
TokenizePhrases(phrases, device_count) ==
    IF phrases.n = 0 THEN "none"
    ELSE IF phrases.too_long \/ device_count = 0 THEN "RuntimeError"
    ELSE "none"

\* TextEncoder.encode_text on one [1, 77] token tensor: the shape of the
\* embedding, or BroadcastError when x + positional_embedding raises.
EncodeTextShape(clip_model) ==
    LET x == Broadcast(<<1, DefaultContextLength, clip_model.width>>,
                       <<clip_model.context, clip_model.width>>)
    IN  IF x = BroadcastError THEN BroadcastError
        ELSE <<Transformer(x)[1], clip_model.embed>>

\* Lines 349-351 and 353-355 for one phrase list: tokenize, encode, normalize.
\* Gives the exception and its line, or "none".
EmbedPhrases(phrases, cfg, tokenize_line, encode_line) ==
    IF TokenizePhrases(phrases, cfg.device_count) # "none"
    THEN [kind |-> "RuntimeError", line |-> tokenize_line]
    ELSE IF ~HasModule(Wrapped(cfg.device_count))
    THEN [kind |-> "AttributeError", line |-> encode_line]
    ELSE IF phrases.n >= 1 /\ EncodeTextShape(cfg.clip_model) = BroadcastError
    THEN [kind |-> "RuntimeError", line |-> 249]
    ELSE [kind |-> "none", line |-> encode_line]

\* The i-th entity key: the normalized embedding of entity phrase i.
EntityKey(i) == [entity |-> i]

\* CLIP.__init__: the exception raised, or the fields of the built classifier.
Constructed(cfg) ==
    LET keys == EmbedPhrases(cfg.entities, cfg, 349, 350)
        names == EmbedPhrases(cfg.class_names, cfg, 353, 354)
        failed(e) == [kind |-> e.kind, line |-> e.line, n_class |-> cfg.class_names.n,
                      entity_keys |-> <<>>, entity_prompts |-> <<>>, n_ctx |-> 0,
                      wrapped |-> Wrapped(cfg.device_count)]
    IN  IF keys.kind # "none" THEN failed(keys)
        ELSE IF names.kind # "none" THEN failed(names)
        ELSE [kind |-> "built", line |-> 372, n_class |-> cfg.class_names.n,
              entity_keys |-> [i \in 1..cfg.entities.n |-> EntityKey(i - 1)],
              entity_prompts |-> <<cfg.entities.n, EntityPromptLength, cfg.clip_model.width>>,
              n_ctx |-> cfg.n_ctx,
              wrapped |-> Wrapped(cfg.device_count)]

\* The pending construction CLIP(...) runs.
Construct ==
    /\ ~clip.called
    /\ clip' = [called |-> TRUE, cfg |-> clip.cfg, self |-> Constructed(clip.cfg)]
    /\ UNCHANGED <<tok, dl, fs, fwd>>

(***************************************************************************)
(* CLIP.forward (clip.py 374-404), PromptLearner.forward (207-215) and     *)
(* TextEncoder.forward (230-242)                                           *)
(***************************************************************************)
\* The similarity scores image_features @ keys.t() can take for one entity.
ScoreLevels == {0, 1}

\* An image batch, as the scores of its images against each entity key:
\* probability[b][i + 1] is the score of image b against entity i.
BatchSizes == {1, 2}
Batches(n_entity) ==
    UNION {[1..batch -> [1..n_entity -> ScoreLevels]] : batch \in BatchSizes}

\* CatOfNothing giving an empty tensor instead of raising.
CatOfNothingEmpty == "none"

\* torch.cat(self.entity_keys, dim=0) of an empty list.
CatOfNothing == "RuntimeError"

\* torch.cat(self.entity_keys, dim=0): the exception raised, or "none".
CatKeys(entity_keys) == IF Len(entity_keys) = 0 THEN CatOfNothing ELSE "none"

\* k as passed to topk without the clamp to the number of entities.
TopKCountUnclamped(text_prompt, n_entity) == text_prompt

\* k = min(self.args.text_prompt, probability.shape[1])
TopKCount(text_prompt, n_entity) == Min(text_prompt, n_entity)

\* The index rows probability.topk(k, dim=1, largest=True) can return for one
\* image (entity indices from 0): k distinct indices of the largest scores, in
\* descending score order; torch leaves the order among equal scores, and the
\* choice among equal scores at the cut, unspecified.
TopK(scores, k) ==
    {idx \in [1..k -> 0..Len(scores) - 1] :
        /\ \A p, q \in 1..k : p < q => idx[p] # idx[q]
        /\ \A p, q \in 1..k : p < q => scores[idx[p] + 1] >= scores[idx[q] + 1]
        /\ \A p \in 1..k : \A i \in 0..Len(scores) - 1 :
              (\A q \in 1..k : idx[q] # i) => scores[idx[p] + 1] >= scores[i + 1]}

\* The selection step, lines 383-385: the exception raised, or the index rows.
Select(self, text_prompt, probability, pick) ==
    LET n_entity == Len(self.entity_keys)
        k == TopKCount(text_prompt, n_entity)
    IN  IF CatKeys(self.entity_keys) # "none"
        THEN [kind |-> "RuntimeError", line |-> 383, indexs |-> <<>>]
        ELSE IF k > n_entity
        THEN [kind |-> "RuntimeError", line |-> 385, indexs |-> <<>>]
        ELSE [kind |-> "none", line |-> 385,
              indexs |-> [b \in 1..Len(probability) |-> pick[b]]]

\* The index rows topk may return for a batch: one of TopK's rows per image.
RECURSIVE PickRows(_, _, _)
PickRows(probability, k, batch) ==
    IF batch = 0 THEN {<<>>}
    ELSE {Append(rows, row) : rows \in PickRows(probability, k, batch - 1),
                              row \in TopK(probability[batch], k)}

Picks(self, text_prompt, probability) ==
    LET n_entity == Len(self.entity_keys)
        k == TopKCount(text_prompt, n_entity)
    IN  IF n_entity = 0 \/ k > n_entity
        THEN {[b \in 1..Len(probability) |-> <<>>]}
        ELSE PickRows(probability, k, Len(probability))

\* self.entity_keys[indexs], line 387: entity_keys is a Python list, and a
\* tensor indexes a list only through __index__, which exists for integer
\* tensors of a single element; the element then picks one key.
ChosenKeys(entity_keys, indexs) ==
    LET batch == Len(indexs)
        k == IF batch = 0 THEN 0 ELSE Len(indexs[1])
    IN  IF batch * k = 1
        THEN [kind |-> "none", line |-> 387, keys |-> <<<<entity_keys[indexs[1][1] + 1]>>>>]
        ELSE [kind |-> "TypeError", line |-> 387, keys |-> <<>>]

\* PromptLearner.forward, line 211: entity_prompts[indexs] is
\* [batch, k, 12, ctx_dim] and is viewed as [batch, n_ctx * args.text_prompt, ctx_dim].
Assemble(self, text_prompt, indexs) ==
    LET batch == Len(indexs)
        k == Len(indexs[1])
        ctx_dim == self.entity_prompts[3]
        gathered == <<batch, k, self.entity_prompts[2], ctx_dim>>
        wanted == <<batch, self.n_ctx * text_prompt, ctx_dim>>
    IN  IF Numel(gathered) = Numel(wanted)
        THEN [kind |-> "none", line |-> 211, shape |-> wanted,
              prompts |-> [b \in 1..batch |-> indexs[b]]]
        ELSE [kind |-> "RuntimeError", line |-> 211, shape |-> <<>>, prompts |-> <<>>]

\* TextEncoder.forward on x of shape [batch, length, width]: line 232 adds the
\* positional embedding by broadcasting, line 240 indexes x with
\* (arange(batch), x.argmax(dim=-1)), whose values lie in [0, width) and index
\* the length dimension; in_range says whether the data keeps them below it.
TextEncoderForward(clip_model, x, in_range) ==
    LET added == Broadcast(x, <<clip_model.context, clip_model.width>>)
        hidden == Transformer(added)
        index == Broadcast(<<hidden[1]>>, <<hidden[1], hidden[2]>>)
    IN  IF added = BroadcastError
        THEN [kind |-> "RuntimeError", line |-> 232, shape |-> <<>>]
        ELSE IF index = BroadcastError
        THEN [kind |-> "IndexError", line |-> 240, shape |-> <<>>]
        ELSE IF hidden[3] > hidden[2] /\ ~in_range
        THEN [kind |-> "IndexError", line |-> 240, shape |-> <<>>]
        ELSE [kind |-> "none", line |-> 240, shape |-> index \o <<clip_model.embed>>]

\* text_features.view(image_features.shape[0], self.n_class, -1), line 395.
ViewPerClass(shape, batch, n_class) ==
    IF batch * n_class = 0 \/ Numel(shape) % (batch * n_class) # 0
    THEN [kind |-> "RuntimeError", line |-> 395, shape |-> <<>>]
    ELSE [kind |-> "none", line |-> 395,
          shape |-> <<batch, n_class, Numel(shape) \div (batch * n_class)>>]

\* logit_scale * (image_features * text_features).sum(-1), line 399.
Logits(image_features, text_features) ==
    LET product == Broadcast(image_features, text_features)
    IN  IF product = BroadcastError
        THEN [kind |-> "RuntimeError", line |-> 399, shape |-> <<>>]
        ELSE [kind |-> "none", line |-> 399, shape |-> SubSeq(product, 1, Len(product) - 1)]

NotReached == [kind |-> "not reached", line |-> 0]

\* CLIP.forward on a batch whose scores are probability, with the rows topk
\* picks and the data-dependent outcome of the argmax indexing.
Forwarded(self, cfg, probability, pick, in_range) ==
    LET batch == Len(probability)
        selected == Select(self, cfg.text_prompt, probability, pick)
        chosen == IF selected.kind = "none"
                  THEN ChosenKeys(self.entity_keys, selected.indexs) ELSE NotReached
        prompt == IF chosen.kind = "none"
                  THEN Assemble(self, cfg.text_prompt, selected.indexs) ELSE NotReached
        encoded == IF prompt.kind = "none"
                   THEN TextEncoderForward(cfg.clip_model, prompt.shape, in_range)
                   ELSE NotReached
        viewed == IF encoded.kind = "none"
                  THEN ViewPerClass(encoded.shape, batch, self.n_class) ELSE NotReached
        logits == IF viewed.kind = "none"
                  THEN Logits(<<batch, 1, cfg.clip_model.embed>>, viewed.shape)
                  ELSE NotReached
        steps == <<selected, chosen, prompt, encoded, viewed, logits>>
        raised == {j \in 1..Len(steps) : steps[j].kind \notin {"none", "not reached"}}
    IN  [selected |-> selected, chosen |-> chosen, prompt |-> prompt,
         encoded |-> encoded, viewed |-> viewed, logits |-> logits,
         out |-> IF raised = {}
                 THEN [kind |-> "return", line |-> 404]
                 ELSE LET j == CHOOSE r \in raised : TRUE
                      IN  [kind |-> steps[j].kind, line |-> steps[j].line]]

\* A call forward(image) on the built classifier: the batch, the rows topk
\* picks and the outcome of the argmax indexing are the call's inputs.
Forward ==
    /\ clip.called
    /\ clip.self.kind = "built"
    /\ ~fwd.called
    /\ \E probability \in Batches(Len(clip.self.entity_keys)) :
         \E pick \in Picks(clip.self, clip.cfg.text_prompt, probability) :
           \E in_range \in BOOLEAN :
             fwd' = [called |-> TRUE, probability |-> probability,
                     run |-> Forwarded(clip.self, clip.cfg, probability, pick, in_range)]
    /\ UNCHANGED <<tok, dl, fs, clip>>

InitClip ==
    /\ tok = NoCall
    /\ dl = NoCall
    /\ fs = <<>>
    /\ clip \in [called : {FALSE}, cfg : Configs]
    /\ fwd = NoCall

NextClip == Construct \/ Forward

SpecClip == InitClip /\ [][NextClip]_vars

(***************************************************************************)
(* Properties of tokenize                                                  *)
(***************************************************************************)
\* The inputs of the call whose wrapped sequence is longer than context_length.
Offending(args) ==
    {i \in 1..Len(args.texts) : Len(args.texts[i]) + 2 > args.context_length}

\* row holds exactly the wrapped sequence of encoded, then zeros.
Untruncated(row, encoded) ==
    /\ Len(encoded) + 2 <= Len(row)
    /\ row[1] = sot_token
    /\ \A j \in 1..Len(encoded) : row[j + 1] = encoded[j]
    /\ row[Len(encoded) + 2] = eot_token
    /\ \A j \in Len(encoded) + 3..Len(row) : row[j] = 0

\* C1: with truncate=False, a call with an input whose wrapped sequence is
\* longer than context_length raises RuntimeError naming such an input and
\* returns no matrix; a call that returns has every row untruncated.
C1_LengthErrorRaised ==
    (tok.called /\ ~tok.args.truncate) =>
        /\ Offending(tok.args) # {} =>
              /\ tok.out.kind = "RuntimeError"
              /\ tok.out.input \in Offending(tok.args)
              /\ \A i \in 1..tok.out.input - 1 : i \notin Offending(tok.args)
              /\ tok.out.result = <<>>
        /\ tok.out.kind = "return" =>
              /\ Len(tok.out.result) = Len(tok.args.texts)
              /\ \A i \in 1..Len(tok.args.texts) :
                    /\ Len(tok.out.result[i]) = tok.args.context_length
                    /\ Untruncated(tok.out.result[i], tok.args.texts[i])

\* A call whose second input alone is too long has raised, naming it.
C1_Witness ==
    /\ tok.called
    /\ ~tok.args.truncate
    /\ Offending(tok.args) = {2}
    /\ tok.out.kind = "RuntimeError"
    /\ tok.out.input = 2

EotPositions(row) == {p \in 1..Len(row) : row[p] = eot_token}

\* What C2 says of one returned row.
RowWellFormed(row, encoded, context_length, truncate) ==
    /\ Len(row) = context_length
    /\ Len(row) >= 1 /\ row[1] = sot_token
    /\ \E p \in EotPositions(row) : \A q \in p + 1..Len(row) : row[q] = 0
    /\ (truncate /\ Len(encoded) + 2 > context_length) => row[context_length] = eot_token
    /\ (\A j \in 1..Len(encoded) : encoded[j] # eot_token) =>
          Cardinality(EotPositions(row)) = 1

RowsWellFormed ==
    \A i \in 1..Len(tok.out.result) :
        RowWellFormed(tok.out.result[i], tok.args.texts[i],
                      tok.args.context_length, tok.args.truncate)

\* C2 as claimed: every returned row is well formed, for every context_length.
C2_AsClaimed ==
    (tok.called /\ tok.out.kind = "return") => RowsWellFormed

\* C2 amended: every row returned by a call with context_length >= 2 has
\* context_length entries, begins with the start token, has the end token as
\* its last non-padding entry with zeros after, ends with the end token when
\* truncated, and holds the end token once when the text holds none.
C2_RowsWellFormed ==
    (tok.called /\ tok.out.kind = "return" /\ tok.args.context_length >= 2) =>
        /\ Len(tok.out.result) = Len(tok.args.texts)
        /\ RowsWellFormed

\* A call with context_length 2 returned a truncated row and an exactly fitting row.
C2_Witness ==
    /\ tok.called
    /\ tok.out.kind = "return"
    /\ tok.args.truncate
    /\ tok.args.context_length = 2
    /\ Len(tok.args.texts) = 2
    /\ Len(tok.args.texts[1]) = 1
    /\ Len(tok.args.texts[2]) = 0
    /\ tok.out.result[1] = <<sot_token, eot_token>>

(***************************************************************************)
(* Properties of _download                                                 *)
(***************************************************************************)
TargetBefore == dl.before.files[Basename(dl.url)]
TargetNow == fs.files[Basename(dl.url)]

\* C9: a finished _download call either returned the target path, and then the
\* target is a regular file whose SHA256 equals the expected hash, or raised;
\* it raised without fetching when the target existed and was not a regular
\* file; it fetched at most once, exactly once for a cached file with a
\* mismatching hash and never for one with a matching hash; and a mismatch
\* after the fetch raised.
C9_DownloadVerified ==
    dl.called =>
        /\ dl.out.kind = "return" =>
              /\ TargetNow.type = "file"
              /\ Sha256(TargetNow.content) = dl.url[2]
        /\ TargetBefore.type = "dir" =>
              /\ dl.out.kind = "RuntimeError"
              /\ dl.out.fetches = 0
              /\ TargetNow = TargetBefore
        /\ dl.out.fetches \in {0, 1}
        /\ (TargetBefore.type = "file" /\ Sha256(TargetBefore.content) # dl.url[2]) =>
              dl.out.fetches = 1
        /\ (TargetBefore.type = "file" /\ Sha256(TargetBefore.content) = dl.url[2]) =>
              /\ dl.out.fetches = 0
              /\ dl.out.kind = "return"
              /\ TargetNow = TargetBefore
        /\ (dl.out.fetches = 1 /\ Sha256(TargetNow.content) # dl.url[2]) =>
              dl.out.kind # "return"
        /\ \A f \in FileNames \ {Basename(dl.url)} : fs.files[f] = dl.before.files[f]

\* A cached file with a mismatching hash was fetched again once and returned.
C9_Witness ==
    /\ dl.called
    /\ TargetBefore.type = "file"
    /\ Sha256(TargetBefore.content) # dl.url[2]
    /\ dl.out.fetches = 1
    /\ dl.out.kind = "return"
    /\ Sha256(TargetNow.content) = dl.url[2]

\* A fetch that left a file with a mismatching hash has raised at line 70.
C9_WitnessMismatch ==
    /\ dl.called
    /\ dl.out.fetches = 1
    /\ dl.out.kind = "RuntimeError"
    /\ dl.out.line = 70

(***************************************************************************)
(* Properties of the classifier                                            *)
(***************************************************************************)
NEntity == clip.cfg.entities.n
BatchSize == Len(fwd.probability)
Indexs == fwd.run.selected.indexs

\* C3: with N >= 1 entities the selection step returns, for each image of the
\* batch, exactly min(text_prompt, N) pairwise distinct indices, each in [0, N).
C3_SelectsKDistinct ==
    (fwd.called /\ NEntity >= 1) =>
        /\ fwd.run.selected.kind = "none"
        /\ Len(Indexs) = BatchSize
        /\ \A b \in 1..BatchSize :
              /\ Len(Indexs[b]) = Min(clip.cfg.text_prompt, NEntity)
              /\ \A p \in 1..Len(Indexs[b]) : Indexs[b][p] \in 0..NEntity - 1
              /\ \A p, q \in 1..Len(Indexs[b]) : p # q => Indexs[b][p] # Indexs[b][q]

\* A batch of two images was selected from with the prompt count clamped to N.
C3_Witness ==
    /\ fwd.called
    /\ NEntity >= 1
    /\ clip.cfg.text_prompt > NEntity
    /\ BatchSize = 2
    /\ fwd.run.selected.kind = "none"
    /\ Len(Indexs[2]) = NEntity

\* The number of entities that come before entity i when sorting by descending
\* score and, among equal scores, ascending index.
Rank(scores, i) ==
    Cardinality({j \in 0..Len(scores) - 1 :
                    \/ scores[j + 1] > scores[i + 1]
                    \/ scores[j + 1] = scores[i + 1] /\ j < i})

StableTopK(scores, k) ==
    [p \in 1..k |-> CHOOSE i \in 0..Len(scores) - 1 : Rank(scores, i) = p - 1]

\* C4: the indices selected for each image are the K highest scoring entities
\* in descending score order, equal scores in ascending index order.
C4_AsClaimed ==
    (fwd.called /\ fwd.run.selected.kind = "none") =>
        \A b \in 1..BatchSize :
            Indexs[b] = StableTopK(fwd.probability[b], Len(Indexs[b]))

\* The text embeddings the text encoder produced per image.
EmbeddingsPerImage ==
    Numel(fwd.run.encoded.shape) \div (BatchSize * clip.cfg.clip_model.embed)

\* C5: a forward call whose text encoder produced a number of embeddings per
\* image other than n_class raises and returns no logits.
C5_AsClaimed ==
    (fwd.called /\ fwd.run.encoded.kind = "none"
        /\ EmbeddingsPerImage # clip.self.n_class) =>
        /\ fwd.run.out.kind # "return"
        /\ fwd.run.logits.kind # "none"

\* C6: with N >= 1 entities, assembling the selected indices gives, for each
\* image, K * n_ctx vectors of dimension ctx_dim, n_ctx being the length passed
\* at construction: the soft prompts of the selected entities in order.
C6_AsClaimed ==
    (fwd.called /\ NEntity >= 1 /\ fwd.run.prompt.kind # "not reached") =>
        /\ fwd.run.prompt.kind = "none"
        /\ fwd.run.prompt.shape =
              <<BatchSize, Len(Indexs[1]) * clip.cfg.n_ctx, clip.cfg.clip_model.width>>
        /\ fwd.run.prompt.prompts = Indexs

\* C7: whenever the selection gave K >= 1 indices per image, the key lookup
\* succeeds and chosen keys holds, per image, the keys at the selected indices
\* in order; a call that returns returns them.
C7_AsClaimed ==
    (fwd.called /\ fwd.run.selected.kind = "none" /\ Len(Indexs[1]) >= 1) =>
        /\ fwd.run.chosen.kind = "none"
        /\ fwd.run.chosen.keys =
              [b \in 1..BatchSize |->
                  [p \in 1..Len(Indexs[b]) |-> clip.self.entity_keys[Indexs[b][p] + 1]]]

\* C8: a forward call on a classifier built with no entities raises in the
\* selection step and produces no indices, chosen keys or logits.
C8_EmptyBankRaises ==
    (fwd.called /\ NEntity = 0) =>
        /\ fwd.run.out.kind = "RuntimeError"
        /\ fwd.run.out.line = 383
        /\ fwd.run.selected.kind # "none"
        /\ Indexs = <<>>
        /\ fwd.run.chosen.kind = "not reached"
        /\ fwd.run.logits.kind = "not reached"

\* A classifier built with no entities was called on a batch and raised.
C8_Witness ==
    /\ fwd.called
    /\ NEntity = 0
    /\ clip.self.kind = "built"
    /\ clip.self.entity_keys = <<>>
    /\ fwd.run.out.kind = "RuntimeError"

\* C10: with one device or more, fitting phrases and a text encoder of the
\* default context length, construction completes, wrapped or not.
C10_AsClaimed ==
    (/\ clip.called
     /\ clip.cfg.device_count >= 1
     /\ ~clip.cfg.entities.too_long
     /\ ~clip.cfg.class_names.too_long
     /\ clip.cfg.clip_model.context = DefaultContextLength) =>
        clip.self.kind = "built"

====
